---- MODULE Spec2Model ----
(***************************************************************************)
(* The skill installer skill (src/__init__.py): the voice handlers         *)
(* install / install_beta / remove and the marketplace reconciliation      *)
(* on_web_settings_change -> handle_marketplace, over the skill ledger     *)
(* (SkillManager.load_skills_data / write_skills_data) and the local       *)
(* presence of skills on disk (msm).                                       *)
(*                                                                         *)
(* A skill name as sent by the backend, "name.author", is the sequence of  *)
(* its dot-separated parts; to_install / to_remove are sets of entries     *)
(* (the order of the lists is not read by the code).  A dict is a function *)
(* whose DOMAIN is its key set.                                            *)
(***************************************************************************)
EXTENDS Integers, Sequences, FiniteSets, TLC

\* ------------------------------------------------------------------ bounds
\* entries of to_install and to_remove together
MaxDelta == 2
\* the largest value of the clock; every handler invocation advances it
MaxNow == 3
\* the number of skills an ambiguous query matches
MaxMatches == 10

\* --------------------------------------------------------------- universe
\* the skills of the remote listing
Catalog == {"weather", "joke"}
\* the skill behind settings['installer_link']
LinkSkill == "custom"
NoLink == "none"
Link == "https://example.org/custom"
\* DeviceApi().get()['uuid'] and another device's uuid
ThisUuid == "uuid1"
OtherUuid == "uuid2"

\* the 'devices' field of a delta entry: the key is absent, or a list
Absent == [present |-> FALSE, uuids |-> {}]
Devices(S) == [present |-> TRUE, uuids |-> S]
DevFields == {Absent, Devices({}), Devices({ThisUuid}), Devices({OtherUuid})}

\* find_skill: with this many candidates or more no choice is offered
TooMany == 10
\* the skills an ambiguous query matches (MultipleSkillMatches.skills), counted
\* by is_local; fewer than two means that no query is ambiguous
NoAmbiguity == [local |-> 0, remote |-> 0]
\* MaxMatches skills, any number of them on disk
Ambiguities ==
  {NoAmbiguity} \cup {[local |-> a, remote |-> MaxMatches - a] : a \in 0..MaxMatches}

RawNames == {<<"weather">>, <<"joke", "author1">>, <<"joke", "author2">>, <<"ghost">>}
\* the entries of the marketplace runs: every name without a device list, and
\* two of the names with every device list
PlainEntries == [name : {<<"weather">>, <<"joke", "author1">>}, devices : {Absent}]
MarketEntries ==
  [name : RawNames, devices : {Absent}]
    \cup [name : {<<"weather">>, <<"joke", "author1">>}, devices : DevFields]

RECURSIVE UpTo(_, _)
UpTo(S, k) ==
  IF k = 0 THEN {{}}
  ELSE LET P == UpTo(S, k - 1) IN P \cup {p \cup {x} : p \in P, x \in S}

Deltas(E) ==
  {[to_install |-> {i[2] : i \in {j \in d : j[1] = "install"}},
    to_remove  |-> {i[2] : i \in {j \in d : j[1] = "remove"}}] :
      d \in UpTo({"install", "remove"} \X E, MaxDelta)}

\* ------------------------------------------------------------------ dicts
EmptyDict == [k \in {} |-> {}]
Put(d, k, v) == [x \in DOMAIN d \cup {k} |-> IF x = k THEN v ELSE d[x]]
Del(d, k) == [x \in DOMAIN d \ {k} |-> d[x]]
\* dict.update: the keys of upd overwrite those of rec
Merge(rec, upd) ==
  [k \in DOMAIN rec \cup DOMAIN upd |-> IF k \in DOMAIN upd THEN upd[k] ELSE rec[k]]
\* skills_data.setdefault(skill, {}) followed by the field assignments upd
Update(sd, skill, upd) ==
  Put(sd, skill, Merge(IF skill \in DOMAIN sd THEN sd[skill] ELSE EmptyDict, upd))

\* --------------------------------------------------------- pure functions
\* s['name'].split('.')[0]
Base(raw) == Head(raw)

\* self.msm.list(): the remote listing and whatever is on disk
MsmList(loc) == Catalog \cup loc

TieBreakNone(to_install, to_remove) == to_install

\* on_web_settings_change: a skill in to_install and to_remove is not installed
TieBreak(to_install, to_remove) ==
  LET removing == {e.name : e \in to_remove}
  IN  {e \in to_install : e.name \notin removing}

FilterByUuidAll(skills) == skills

\* __filter_by_uuid
FilterByUuid(skills) ==
  {s \in skills : (~s.devices.present \/ s.devices.uuids = {})
                    \/ ThisUuid \in s.devices.uuids}

InstallItemsUnfiltered(install_list, loc) == FilterByUuid(install_list)

\* the batch of __marketplace_install: one item per entry that passes the filters
InstallItems(install_list, loc) ==
  LET kept   == FilterByUuid(install_list)
      known  == {e \in kept : Base(e.name) \in MsmList(loc)}
  IN  {e \in known : Base(e.name) \notin loc}

\* the batch of __marketplace_remove
RemoveItems(remove_list, loc) ==
  {e \in FilterByUuid(remove_list) : Base(e.name) \in loc}

InstalledFields(t) ==
  [origin |-> "marketplace", installation |-> "installed", installed |-> t,
   failure_message |-> "", updated |-> 0]
FailedFields ==
  [origin |-> "marketplace", installation |-> "failed", installed |-> 0,
   failure_message |-> "MsmException occured", updated |-> 0]

\* handle_marketplace: the loop over installed, then the loop over failed
RecordInstalls(sd, installed, failed, t) ==
  [n \in DOMAIN sd \cup installed \cup failed |->
     LET old == IF n \in DOMAIN sd THEN sd[n] ELSE EmptyDict
         a   == IF n \in installed THEN Merge(old, InstalledFields(t)) ELSE old
     IN  IF n \in failed THEN Merge(a, FailedFields) ELSE a]

\* handle_marketplace: the loop over removed
RecordRemovals(sd, removed) == [n \in DOMAIN sd \ removed |-> sd[n]]


SetDefault(d, k) == IF k \in DOMAIN d THEN d ELSE Put(d, k, EmptyDict)

WasBetaNever(skill_data) == FALSE

\* skill_data.get('beta'), as a condition
WasBeta(skill_data) == "beta" \in DOMAIN skill_data /\ skill_data["beta"]

\* install / install_beta: the fields written after the transport operation
VoiceFields(n, beta, t) ==
  [beta |-> beta, name |-> n, origin |-> "voice", installation |-> "installed",
   installed |-> t, failure_message |-> ""]

\* handle_msm_errors: the dialog spoken for an exception
ErrorDialog(e) ==
  CASE e = "SkillNotFound" -> "error.not.found"
    [] e = "SkillRequirementsException" -> "error.skill.requirements"
    [] e = "PipRequirementsException" -> "error.pip.requirements"
    [] e = "SystemRequirementsException" -> "error.system.requirements"
    [] e = "CloneException" -> "error.filesystem"
    [] e = "GitException" -> "error.filesystem"
    [] e = "AlreadyRemoved" -> "error.already.removed"
    [] e = "AlreadyInstalled" -> "error.already.installed"
    [] e = "MultipleSkillMatches" -> "error.multiple.skills"
    [] OTHER -> "error.other"

\* the exceptions a transport operation raises in the runs
TransportErrors == {"CloneException", "PipRequirementsException"}

\* the ways find_skill ends without a skill
FindFailures == {"SkillNotFound", "TooManySkills", "NoResponse", "MultipleSkillMatches"}

\* find_skill and handle_msm_errors: what is spoken when find_skill ends that way
FindSpoken(f) ==
  CASE f = "TooManySkills" -> <<"error.too.many.skills", "cancelled">>
    [] f = "NoResponse" -> <<"cancelled">>
    [] OTHER -> <<ErrorDialog(f)>>

FindOutcome(f) == IF f \in {"TooManySkills", "NoResponse"} THEN "cancelled" ELSE "failed"

TooManySkillsOver(n) == n > TooMany

\* find_skill: len(skills) >= 10
TooManySkills(n) == n >= TooMany

\* the skills of the listing whose is_local is flag
WithLocality(loc, flag) == {n \in MsmList(loc) : (n \in loc) = flag}

\* find_skill(param, local) with local = flag: the ways it can end.  'end' is
\* "found" or one of FindFailures, 'skill' the name of the skill returned and
\* 'find' the results of msm.find_skill and the prompt, in order.
FindSkill(loc, amb, flag) ==
  LET ends(tr, e) == [find |-> tr, end |-> e, skill |-> "none"]
      finds(tr, n) == [find |-> tr, end |-> "found", skill |-> n]
      \* len([i for i in e.skills if i.is_local == local])
      skills == IF flag THEN amb.local ELSE amb.remote
      m == <<"MultipleSkillMatches">>
      asked == m \o <<"choose.skill">>
  IN  {finds(<<"found">>, n) : n \in MsmList(loc)}
        \cup {ends(<<"SkillNotFound">>, "SkillNotFound")}
        \cup (IF amb.local + amb.remote < 2 THEN {}
              ELSE IF TooManySkills(skills) THEN {ends(m, "TooManySkills")}
              ELSE IF skills > 0
                THEN {ends(asked, "NoResponse"),
                      ends(asked \o <<"SkillNotFound">>, "SkillNotFound")}
                       \cup (IF skills >= 2
                               THEN {ends(asked \o m, "MultipleSkillMatches")}
                               ELSE {})
                       \cup {finds(asked \o <<"found">>, n) :
                               n \in WithLocality(loc, flag)}
              ELSE {ends(m, "SkillNotFound")})

ConfirmAnythingButNo(resp) == resp # "no"

\* confirm_skill_action: only 'yes' confirms
ConfirmSkillAction(resp) == resp = "yes"

LinkInstallDueAnyTime(s) == s.installer_link # NoLink /\ s.auto_install

\* on_web_settings_change: if link and prev_link != link and auto_install
LinkInstallDue(s) ==
  /\ s.installer_link # NoLink
  /\ s.previous_link # s.installer_link
  /\ s.auto_install

\* ------------------------------------------------------------------ state
VARIABLES
  settings,        \* self.settings
  local,           \* the skills present on disk (skill.is_local)
  ledger,          \* the persisted skills data
  now,             \* time.time()
  m_pc,            \* on_web_settings_change / handle_marketplace: position
  m_to_install,    \* handle_marketplace: to_install
  m_to_remove,     \* handle_marketplace: to_remove
  m_skills_data,   \* handle_marketplace: skills_data
  m_install_batch, \* __marketplace_install: skills handed to msm.apply
  m_installed,     \* __marketplace_install: successes
  m_failed,        \* __marketplace_install: fails
  m_remove_batch,  \* __marketplace_remove: skills handed to msm.apply
  m_erased,        \* the skills msm.remove erased in this pass
  p_ran,           \* a pass has completed before the current one
  p_installed,     \* successes of the pass before the current one
  m_loaded,        \* handle_marketplace: skills_data as load_skills_data returned it
  m_local,         \* the skills on disk when handle_marketplace was called
  link_installs,   \* the calls of msm.install(link) by on_web_settings_change
  ambiguous,       \* the skills an ambiguous query matches, counted by is_local
  overlap,         \* the latest handler started while the other path was running
  v_pc,            \* install / install_beta / remove: position
  v_kind,          \* which of the three handlers runs
  v_find,          \* find_skill: the results of msm.find_skill and the prompts, in order
  v_skill,         \* skill.name of the skill find_skill returned
  v_is_local,      \* skill.is_local of that skill
  v_skills_data,   \* the handler's skills_data
  v_outcome,       \* how the invocation ended
  v_spoken,        \* the dialogs of speak_dialog, in order
  v_resp,          \* the answer ask_yesno returned
  v_calls,         \* the transport operations the invocation called
  v_ledger0,       \* the persisted skills data when the invocation began
  v_foreign        \* a marketplace pass wrote the skills data since then

mvars == <<m_pc, m_to_install, m_to_remove, m_skills_data, m_install_batch,
           m_installed, m_failed, m_remove_batch, m_erased>>
pvars == <<p_ran, p_installed, m_loaded, m_local, link_installs, ambiguous>>
vvars == <<v_pc, v_kind, v_find, v_skill, v_is_local, v_skills_data, v_outcome, v_spoken,
           v_resp, v_calls, v_ledger0>>
vars == <<settings, local, ledger, now, mvars, pvars, overlap, vvars, v_foreign>>

\* the skills data before the run: records of earlier voice installs
InitLedger(recorded, beta) == [n \in recorded |-> VoiceFields(n, n \in beta, 1)]

InitCommon ==
  /\ local \in SUBSET Catalog
  /\ now = 1
  /\ m_pc = "idle"
  /\ m_to_install = {} /\ m_to_remove = {}
  /\ m_skills_data = EmptyDict
  /\ m_install_batch = {} /\ m_installed = {} /\ m_failed = {}
  /\ m_remove_batch = {} /\ m_erased = {}
  /\ p_ran = FALSE /\ p_installed = {} /\ m_loaded = EmptyDict
  /\ m_local = {} /\ link_installs = 0
  /\ overlap = FALSE
  /\ v_pc = "idle" /\ v_kind = "none" /\ v_find = <<>> /\ v_skill = "none" /\ v_is_local = FALSE
  /\ v_skills_data = EmptyDict
  /\ v_outcome = "none" /\ v_spoken = <<>> /\ v_resp = "unasked"
  /\ v_calls = {} /\ v_ledger0 = EmptyDict /\ v_foreign = FALSE

InitMarket ==
  /\ InitCommon
  /\ \E d \in Deltas(MarketEntries), l \in {NoLink, Link}, a \in BOOLEAN :
       settings = [to_install |-> d.to_install, to_remove |-> d.to_remove,
                   installer_link |-> l, previous_link |-> NoLink,
                   auto_install |-> a]
  /\ ledger = InitLedger(local, {})
  /\ ambiguous = NoAmbiguity

Init ==
  /\ InitCommon
  /\ \E d \in Deltas(PlainEntries) :
       settings = [to_install |-> d.to_install, to_remove |-> d.to_remove,
                   installer_link |-> NoLink, previous_link |-> NoLink,
                   auto_install |-> FALSE]
  /\ \E recorded \in SUBSET local : \E beta \in SUBSET recorded :
       ledger = InitLedger(recorded, beta)
  /\ ambiguous = NoAmbiguity

\* the voice handlers alone, with ambiguous queries
InitVoice ==
  /\ InitCommon
  /\ settings = [to_install |-> {}, to_remove |-> {},
                 installer_link |-> NoLink, previous_link |-> NoLink,
                 auto_install |-> FALSE]
  /\ \E recorded \in SUBSET local : \E beta \in SUBSET recorded :
       ledger = InitLedger(recorded, beta)
  /\ ambiguous \in Ambiguities

\* ---------------------------------------------------------------- actions
\* on_web_settings_change up to handle_marketplace's load_skills_data
OnWebSettingsChange ==
  /\ m_pc \in {"idle", "done"}
  /\ now < MaxNow
  /\ now' = now + 1
  /\ IF LinkInstallDue(settings)
     THEN /\ settings' = [settings EXCEPT !.previous_link = settings.installer_link]
          /\ link_installs' = link_installs + 1
          /\ \E ok \in BOOLEAN :
               /\ local' = IF ok THEN local \cup {LinkSkill} ELSE local
               /\ m_local' = local'
     ELSE /\ m_local' = local
          /\ UNCHANGED <<settings, local, link_installs>>
  /\ m_to_install' = TieBreak(settings.to_install, settings.to_remove)
  /\ m_to_remove' = settings.to_remove
  /\ m_skills_data' = ledger
  /\ m_pc' = "install"
  /\ m_install_batch' = {} /\ m_installed' = {} /\ m_failed' = {}
  /\ m_remove_batch' = {} /\ m_erased' = {}
  /\ p_ran' = (m_pc = "done")
  /\ p_installed' = m_installed
  /\ m_loaded' = ledger
  /\ overlap' = (v_pc \notin {"idle", "done"})
  /\ UNCHANGED <<ledger, ambiguous, vvars, v_foreign>>

\* __marketplace_install and the two loops that record its result
MarketplaceInstall ==
  /\ m_pc = "install"
  /\ \/ \* DeviceApi().get() or msm.list() raises: return [], []
        /\ m_install_batch' = {} /\ m_installed' = {} /\ m_failed' = {}
        /\ UNCHANGED <<local, m_skills_data>>
     \/ LET items == InstallItems(m_to_install, local)
        IN  \E out \in [items -> {"ok", "fail", "escape"}] :
              LET successes == {Base(e.name) : e \in {i \in items : out[i] = "ok"}}
                  fails     == {Base(e.name) : e \in {i \in items : out[i] = "fail"}}
              IN  /\ m_install_batch' = {Base(e.name) : e \in items}
                  /\ m_installed' = successes
                  /\ m_failed' = fails
                  /\ local' = local \cup successes
                  /\ m_skills_data' = RecordInstalls(m_skills_data, successes, fails, now)
  /\ m_pc' = "remove"
  /\ UNCHANGED <<settings, ledger, now, m_to_install, m_to_remove,
                 m_remove_batch, m_erased, pvars, overlap, vvars, v_foreign>>

\* __marketplace_remove and the loop that records its result
MarketplaceRemove ==
  /\ m_pc = "remove"
  /\ \/ \* DeviceApi().get() or msm.list() raises: return []
        /\ m_remove_batch' = {} /\ m_erased' = {}
        /\ UNCHANGED <<local, m_skills_data>>
     \/ LET skills == {Base(e.name) : e \in RemoveItems(m_to_remove, local)}
        IN  \E erased \in SUBSET skills :
              /\ m_remove_batch' = skills
              /\ m_erased' = erased
              /\ local' = local \ erased
              /\ m_skills_data' = RecordRemovals(m_skills_data, skills)
  /\ m_pc' = "write"
  /\ UNCHANGED <<settings, ledger, now, m_to_install, m_to_remove,
                 m_install_batch, m_installed, m_failed, pvars, overlap, vvars,
                 v_foreign>>

\* handle_marketplace: SkillManager.write_skills_data(skills_data)
MarketplaceWrite ==
  /\ m_pc = "write"
  /\ ledger' = m_skills_data
  /\ m_pc' = "done"
  /\ m_to_install' = {} /\ m_to_remove' = {}
  /\ m_skills_data' = EmptyDict
  /\ v_foreign' = TRUE
  /\ UNCHANGED <<settings, local, now, m_install_batch, m_installed, m_failed,
                 m_remove_batch, m_erased, pvars, overlap, vvars>>


\* ---------------------------------------------------------- voice handlers
\* entry of a handler
Begin(kind) ==
  /\ v_pc \in {"idle", "done"}
  /\ now < MaxNow
  /\ now' = now + 1
  /\ v_kind' = kind
  /\ v_resp' = "unasked"
  /\ v_calls' = {}
  /\ v_ledger0' = ledger
  /\ v_foreign' = FALSE
  /\ overlap' = (m_pc \notin {"idle", "done"})
  /\ UNCHANGED <<settings, local, ledger, mvars, pvars>>

\* the handler returns before it has a skill
EndEarly(outcome, spoken) ==
  /\ v_pc' = "done"
  /\ v_outcome' = outcome
  /\ v_spoken' = spoken
  /\ v_skill' = "none"
  /\ v_is_local' = FALSE
  /\ v_skills_data' = EmptyDict

\* install, up to confirm_skill_action
Install ==
  /\ Begin("install")
  /\ \/ EndEarly("listed", <<"some.available.skills">>) /\ v_find' = <<>>
     \/ \E r \in {x \in FindSkill(local, ambiguous, FALSE) : x.end # "found"} :
          EndEarly(FindOutcome(r.end), FindSpoken(r.end)) /\ v_find' = r.find
     \/ \E r \in {x \in FindSkill(local, ambiguous, FALSE) : x.end = "found"} :
          LET n == r.skill
              skills_data == SetDefault(ledger, n)
          IN  /\ v_find' = r.find
              /\ v_skill' = n
              /\ v_is_local' = (n \in local)
              /\ IF ~WasBeta(skills_data[n]) /\ n \in local
                 THEN /\ v_pc' = "done"
                      /\ v_skills_data' = EmptyDict
                      /\ v_outcome' = "failed"
                      /\ v_spoken' = <<ErrorDialog("AlreadyInstalled")>>
                 ELSE /\ v_pc' = "confirm"
                      /\ v_skills_data' = skills_data
                      /\ v_outcome' = "none"
                      /\ v_spoken' = <<>>

\* install_beta, up to confirm_skill_action
InstallBeta ==
  /\ Begin("install_beta")
  /\ \/ \E r \in {x \in FindSkill(local, ambiguous, FALSE) : x.end # "found"} :
          EndEarly(FindOutcome(r.end), FindSpoken(r.end)) /\ v_find' = r.find
     \/ \E r \in {x \in FindSkill(local, ambiguous, FALSE) : x.end = "found"} :
          LET n == r.skill
              skills_data == SetDefault(ledger, n)
          IN  /\ v_find' = r.find
              /\ v_skill' = n
              /\ v_is_local' = (n \in local)
              /\ IF WasBeta(skills_data[n]) /\ n \in local
                 THEN /\ v_pc' = "done"
                      /\ v_skills_data' = EmptyDict
                      /\ v_outcome' = "failed"
                      /\ v_spoken' = <<"error.already.beta">>
                 ELSE /\ v_pc' = "confirm"
                      /\ v_skills_data' = skills_data
                      /\ v_outcome' = "none"
                      /\ v_spoken' = <<>>

\* remove, up to confirm_skill_action
Remove ==
  /\ Begin("remove")
  /\ \/ \E r \in {x \in FindSkill(local, ambiguous, TRUE) : x.end # "found"} :
          EndEarly(FindOutcome(r.end), FindSpoken(r.end)) /\ v_find' = r.find
     \/ \E r \in {x \in FindSkill(local, ambiguous, TRUE) : x.end = "found"} :
          LET n == r.skill
          IN
          /\ v_find' = r.find
          /\ v_skill' = n
          /\ v_is_local' = (n \in local)
          /\ v_skills_data' = EmptyDict
          /\ IF n \notin local
             THEN /\ v_pc' = "done"
                  /\ v_outcome' = "failed"
                  /\ v_spoken' = <<ErrorDialog("AlreadyRemoved")>>
             ELSE /\ v_pc' = "confirm"
                  /\ v_outcome' = "none"
                  /\ v_spoken' = <<>>

\* confirm_skill_action returns
Confirm ==
  /\ v_pc = "confirm"
  /\ \E resp \in {"yes", "no", "none"} :
       /\ v_resp' = resp
       /\ IF ConfirmSkillAction(resp)
          THEN /\ v_pc' = "execute"
               /\ UNCHANGED <<v_outcome, v_spoken, v_skills_data>>
          ELSE /\ v_pc' = "done"
               /\ v_outcome' = "cancelled"
               /\ v_spoken' = Append(v_spoken, "cancelled")
               /\ v_skills_data' = EmptyDict
  /\ UNCHANGED <<settings, local, ledger, now, mvars, pvars, overlap, v_kind, v_find,
                 v_skill, v_is_local, v_calls, v_ledger0, v_foreign>>

\* a transport operation raised e: handle_msm_errors speaks and the handler ends
Raised(e) ==
  /\ v_pc' = "done"
  /\ v_outcome' = "failed"
  /\ v_spoken' = Append(v_spoken, ErrorDialog(e))
  /\ v_skills_data' = EmptyDict

\* install: skill.remove(), skill.install() and the fields of the record
ExecuteInstall ==
  /\ v_pc = "execute" /\ v_kind = "install"
  /\ \/ /\ v_calls' = IF v_is_local THEN {"remove", "install"} ELSE {"install"}
        /\ local' = local \cup {v_skill}
        /\ v_skills_data' =
             Update(v_skills_data, v_skill, VoiceFields(v_skill, FALSE, now))
        /\ v_pc' = "write"
        /\ UNCHANGED <<v_outcome, v_spoken>>
     \/ \E e \in TransportErrors :
          /\ v_is_local
          /\ v_calls' = {"remove"}
          /\ UNCHANGED local
          /\ Raised(e)
     \/ \E e \in TransportErrors :
          /\ v_calls' = IF v_is_local THEN {"remove", "install"} ELSE {"install"}
          /\ local' = IF v_is_local THEN local \ {v_skill} ELSE local
          /\ Raised(e)
  /\ UNCHANGED <<settings, ledger, now, mvars, pvars, overlap, v_kind, v_find, v_skill,
                 v_is_local, v_resp, v_ledger0, v_foreign>>

\* install_beta: skill.update() or skill.install() and the fields of the record
ExecuteInstallBeta ==
  /\ v_pc = "execute" /\ v_kind = "install_beta"
  /\ v_calls' = IF v_is_local THEN {"update"} ELSE {"install"}
  /\ \/ /\ local' = local \cup {v_skill}
        /\ v_skills_data' =
             Update(v_skills_data, v_skill, VoiceFields(v_skill, TRUE, now))
        /\ v_pc' = "write"
        /\ UNCHANGED <<v_outcome, v_spoken>>
     \/ \E e \in TransportErrors :
          /\ UNCHANGED local
          /\ Raised(e)
  /\ UNCHANGED <<settings, ledger, now, mvars, pvars, overlap, v_kind, v_find, v_skill,
                 v_is_local, v_resp, v_ledger0, v_foreign>>

\* remove: skill.remove()
ExecuteRemove ==
  /\ v_pc = "execute" /\ v_kind = "remove"
  /\ v_calls' = {"remove"}
  /\ \/ /\ local' = local \ {v_skill}
        /\ v_pc' = "load"
        /\ UNCHANGED <<v_outcome, v_spoken, v_skills_data>>
     \/ \E e \in TransportErrors :
          /\ UNCHANGED local
          /\ Raised(e)
  /\ UNCHANGED <<settings, ledger, now, mvars, pvars, overlap, v_kind, v_find, v_skill,
                 v_is_local, v_resp, v_ledger0, v_foreign>>

\* remove: load_skills_data and the deletion of the record
RemoveLoad ==
  /\ v_pc = "load"
  /\ v_skills_data' = Del(ledger, v_skill)
  /\ v_pc' = "write"
  /\ UNCHANGED <<settings, local, ledger, now, mvars, pvars, overlap, v_kind, v_find,
                 v_skill, v_is_local, v_outcome, v_spoken, v_resp, v_calls,
                 v_ledger0, v_foreign>>

\* write_skills_data and the closing dialog
VoiceWrite ==
  /\ v_pc = "write"
  /\ ledger' = v_skills_data
  /\ v_skills_data' = EmptyDict
  /\ v_pc' = "done"
  /\ v_outcome' = "completed"
  /\ v_spoken' = Append(v_spoken,
                        CASE v_kind = "install" -> "install.complete"
                          [] v_kind = "install_beta" -> "install.beta.complete"
                          [] OTHER -> "remove.complete")
  /\ UNCHANGED <<settings, local, now, mvars, pvars, overlap, v_kind, v_find, v_skill,
                 v_is_local, v_resp, v_calls, v_ledger0, v_foreign>>

Next ==
  \/ OnWebSettingsChange
  \/ MarketplaceInstall
  \/ MarketplaceRemove
  \/ MarketplaceWrite
  \/ Install
  \/ InstallBeta
  \/ Remove
  \/ Confirm
  \/ ExecuteInstall
  \/ ExecuteInstallBeta
  \/ ExecuteRemove
  \/ RemoveLoad
  \/ VoiceWrite

Spec == Init /\ [][Next]_vars

NextMarket ==
  \/ OnWebSettingsChange
  \/ MarketplaceInstall
  \/ MarketplaceRemove
  \/ MarketplaceWrite

SpecMarket == InitMarket /\ [][NextMarket]_vars

NextVoice ==
  \/ Install
  \/ InstallBeta
  \/ Remove
  \/ Confirm
  \/ ExecuteInstall
  \/ ExecuteInstallBeta
  \/ ExecuteRemove
  \/ RemoveLoad
  \/ VoiceWrite

SpecVoice == InitVoice /\ [][NextVoice]_vars

\* ------------------------------------------------------------- properties
Names(list) == {e.name : e \in list}
Bases(list) == {Base(e.name) : e \in list}
\* the record of n in the skills data d, if any
Rec(d, n) == IF n \in DOMAIN d THEN <<d[n]>> ELSE <<>>
\* the entry's 'devices' field is absent, or empty, or holds this device's uuid
ForThisDevice(e) ==
  e.devices.present => (e.devices.uuids = {} \/ ThisUuid \in e.devices.uuids)
InstalledRecord(d, n) ==
  /\ n \in DOMAIN d
  /\ d[n]["installation"] = "installed"
  /\ d[n]["failure_message"] = ""
FailedRecord(d, n) ==
  /\ n \in DOMAIN d
  /\ d[n]["installation"] = "failed"
  /\ d[n]["installed"] = 0
  /\ d[n]["failure_message"] # ""

\* C1: a name in both to_install and to_remove is not in the install list that
\* handle_marketplace receives, and the skills handed to the batch install all
\* come from entries of to_install whose name is not in to_remove.
TieBreakRemoveWins ==
  /\ m_pc \in {"install", "remove", "write"} =>
       \A e \in m_to_install : e.name \notin Names(settings.to_remove)
  /\ m_install_batch \subseteq
       Bases({e \in settings.to_install : e.name \notin Names(settings.to_remove)})

\* C1 witness: a pass has run on a delta that names an installable skill (in the
\* listing, not on disk) in both lists, and the skill was handed to no batch.
TieBreakWitness ==
  /\ m_pc = "done"
  /\ \E e \in settings.to_install :
       /\ e.name \in Names(settings.to_remove)
       /\ ForThisDevice(e)
       /\ Base(e.name) \in Catalog \ local
       /\ Base(e.name) \notin m_install_batch \cup m_remove_batch

\* a confirmed voice handler has loaded the skills data and not yet written it
VoiceReadDecideWrite ==
  \/ v_kind \in {"install", "install_beta"} /\ v_pc \in {"execute", "write"}
  \/ v_kind = "remove" /\ v_pc \in {"load", "write"}
\* a marketplace pass has loaded the skills data and not yet written it
MarketReadDecideWrite == m_pc \in {"install", "remove", "write"}

\* C2: a voice handler between its load_skills_data and its write_skills_data
\* (the wait for the confirmation left out) never coexists with a marketplace
\* pass between its load and its write.
NoInterleaving == ~(VoiceReadDecideWrite /\ MarketReadDecideWrite)

\* C3: when a voice operation on a skill and a marketplace pass that touches only
\* other skills overlapped and both have completed, the persisted skills data
\* holds the update of each.
NoLostUpdate ==
  (/\ overlap
   /\ v_pc = "done" /\ v_outcome = "completed"
   /\ m_pc = "done"
   /\ m_install_batch \cup m_remove_batch # {}
   /\ v_skill \notin m_install_batch \cup m_remove_batch)
  =>
  /\ v_kind \in {"install", "install_beta"} =>
       /\ InstalledRecord(ledger, v_skill)
       /\ ledger[v_skill]["origin"] = "voice"
  /\ v_kind = "remove" => v_skill \notin DOMAIN ledger
  /\ \A b \in m_installed \ (m_failed \cup m_remove_batch) :
       /\ InstalledRecord(ledger, b)
       /\ ledger[b]["origin"] = "marketplace"
  /\ \A b \in m_failed \ m_remove_batch : FailedRecord(ledger, b)
  /\ \A b \in m_remove_batch : b \notin DOMAIN ledger

\* C4: an invocation whose confirmation was answered with anything but 'yes' has
\* ended as cancelled, has called no transport operation, and (unless a
\* marketplace pass wrote meanwhile) the persisted skills data is what it was
\* when the invocation began.
CancelNoSideEffects ==
  v_resp \in {"no", "none"} =>
    /\ v_pc = "done"
    /\ v_outcome = "cancelled"
    /\ v_calls = {}
    /\ ~v_foreign => ledger = v_ledger0

\* C4 witness: a confirmation timed out on a skill that has a record, and no
\* marketplace pass wrote during the invocation.
CancelWitness ==
  /\ v_resp = "none"
  /\ v_outcome = "cancelled"
  /\ v_skill \in DOMAIN ledger
  /\ ~v_foreign

\* C5: when some install of a batch succeeded, every skill handed to the batch
\* is reported, in successes or in fails.
BatchIsolation ==
  (m_pc \in {"remove", "write", "done"} /\ m_installed # {}) =>
    m_install_batch \subseteq m_installed \cup m_failed

\* C6: a skill the previous pass installed successfully is handed to no
\* transport operation by the next pass on the same delta, and its record is as
\* that pass left it.
InstallIdempotent ==
  (m_pc = "done" /\ p_ran) =>
    \A x \in p_installed :
      /\ x \notin m_install_batch \cup m_remove_batch
      /\ Rec(ledger, x) = Rec(m_loaded, x)

\* C7: the skills handed to the batch install and those handed to the batch
\* remove of one pass are disjoint.
DisjointBatches == m_install_batch \cap m_remove_batch = {}

\* C8: after a pass, every successfully installed skill has a record with
\* installation 'installed' and an empty failure message, and every successfully
\* removed skill has no record.
LedgerOutcome ==
  m_pc = "done" =>
    /\ \A n \in m_installed : InstalledRecord(ledger, n)
    /\ \A n \in m_erased : n \notin DOMAIN ledger

\* C9: after a failed install, by the marketplace or by voice, the persisted
\* skills data holds a 'failed' record of the skill with timestamp 0 and a
\* failure message.
FailedInstallRecorded ==
  /\ m_pc = "done" => \A n \in m_failed : FailedRecord(ledger, n)
  /\ (/\ v_pc = "done" /\ v_outcome = "failed"
      /\ v_kind \in {"install", "install_beta"}
      /\ v_calls # {})
     => FailedRecord(ledger, v_skill)

\* C10: __filter_by_uuid keeps exactly the entries for this device, and a pass
\* hands to its batches, and changes the records of, only skills named by
\* entries for this device.
DeviceScopeFilter ==
  LET mine(list) == {e \in list : ForThisDevice(e)}
      scope == Bases(mine(settings.to_install)) \cup Bases(mine(settings.to_remove))
  IN  /\ FilterByUuid(settings.to_install) = mine(settings.to_install)
      /\ FilterByUuid(settings.to_remove) = mine(settings.to_remove)
      /\ m_install_batch \subseteq Bases(mine(settings.to_install))
      /\ m_remove_batch \subseteq Bases(mine(settings.to_remove))
      /\ m_pc \in {"remove", "write"} =>
           \A n \in (DOMAIN m_skills_data \cup DOMAIN m_loaded) \ scope :
             Rec(m_skills_data, n) = Rec(m_loaded, n)
      /\ m_pc = "done" =>
           \A n \in (DOMAIN ledger \cup DOMAIN m_loaded) \ scope :
             Rec(ledger, n) = Rec(m_loaded, n)

\* C10 witness: a pass installed a skill for this device and left alone an
\* installable skill whose entry names only another device.
DeviceScopeWitness ==
  /\ m_pc = "done"
  /\ m_installed # {}
  /\ \E e \in settings.to_install :
       /\ ~ForThisDevice(e)
       /\ e.name \notin Names(settings.to_remove)
       /\ Base(e.name) \in Catalog \ local
       /\ Base(e.name) \notin m_install_batch

\* C11: an invocation of install, install_beta or remove that has ended without
\* completing (failed or cancelled) has spoken exactly one dialog.
OneNotification ==
  (v_pc = "done" /\ v_outcome \in {"failed", "cancelled"}) => Len(v_spoken) = 1

\* C12: a skill that to_install names only while it is unknown to the listing
\* or already on disk, and to_remove names only while it is not on disk, is
\* handed to neither batch, and the pass leaves its record, or the absence of
\* one, as it loaded it.
SilentFilters ==
  \A n \in Bases(settings.to_install) \cup Bases(settings.to_remove) :
    (/\ m_pc \in {"install", "remove", "write", "done"}
     /\ n \in Bases(settings.to_install) => (n \notin Catalog \/ n \in m_local)
     /\ n \in Bases(settings.to_remove) => n \notin m_local)
    =>
    /\ n \notin m_install_batch \cup m_remove_batch
    /\ m_pc \in {"remove", "write"} => Rec(m_skills_data, n) = Rec(m_loaded, n)
    /\ m_pc = "done" => Rec(ledger, n) = Rec(m_loaded, n)

\* C12 witness: a pass that installed a skill has ended, and its to_install also
\* named a skill unknown to the listing, which has no record.
SilentFiltersWitness ==
  /\ m_pc = "done"
  /\ m_installed # {}
  /\ \E e \in settings.to_install :
       /\ ForThisDevice(e)
       /\ e.name \notin Names(settings.to_remove)
       /\ Base(e.name) \notin Catalog \cup m_local
       /\ Base(e.name) \notin DOMAIN ledger

\* the choose-a-skill prompts of a find_skill
Prompts(find) == Len(SelectSeq(find, LAMBDA x : x = "choose.skill"))
\* the lookup with the user's choice did not return a skill
ChoiceUnresolved(find) ==
  Len(find) = 3 /\ find[2] = "choose.skill" /\ find[3] # "found"

\* C13: find_skill asks the user to choose at most once, and when the lookup
\* with the answer finds no skill or again several, the invocation has ended as
\* failed with the not-found dialog, without a transport call or a write of the
\* skills data.
OneRePrompt ==
  /\ Prompts(v_find) <= 1
  /\ ChoiceUnresolved(v_find) =>
       /\ v_pc = "done"
       /\ v_outcome = "failed"
       /\ v_spoken = <<"error.not.found">>
       /\ v_resp = "unasked"
       /\ v_calls = {}
       /\ ledger = v_ledger0

\* the skills of an ambiguous match that have the locality the handler asks for
Candidates == IF v_kind = "remove" THEN ambiguous.local ELSE ambiguous.remote
\* the handler's lookup was ambiguous
AmbiguousMatch == v_find # <<>> /\ Head(v_find) = "MultipleSkillMatches"

\* C14: after an ambiguous match, TooMany or more candidates of the wanted
\* locality end the invocation with the too-many-skills dialog, without the
\* choose-a-skill prompt, a confirmation, a transport call or a write of the
\* skills data; 1 to TooMany - 1 candidates are offered in one prompt; no
\* candidate ends it with the not-found dialog.
TooManyFailsFast ==
  AmbiguousMatch =>
    /\ Candidates >= TooMany =>
         /\ Prompts(v_find) = 0
         /\ v_pc = "done"
         /\ Head(v_spoken) = "error.too.many.skills"
         /\ v_resp = "unasked"
         /\ v_calls = {}
         /\ ledger = v_ledger0
    /\ Candidates \in 1..(TooMany - 1) => Prompts(v_find) = 1
    /\ Candidates = 0 =>
         /\ Prompts(v_find) = 0
         /\ v_pc = "done"
         /\ v_spoken = <<"error.not.found">>

\* C14 witness: an ambiguous match with exactly TooMany candidates has ended with
\* the too-many-skills dialog.
TooManyWitness ==
  /\ AmbiguousMatch
  /\ Candidates = TooMany
  /\ v_pc = "done"
  /\ Head(v_spoken) = "error.too.many.skills"

\* C15: a skill whose removal failed, in a marketplace pass or in the voice
\* remove, has the record it had before, or none as before.
DeleteOnlyRemoved ==
  /\ m_pc = "done" =>
       \A n \in m_remove_batch \ (m_erased \cup m_install_batch) :
         Rec(ledger, n) = Rec(m_loaded, n)
  /\ (/\ v_pc = "done" /\ v_kind = "remove" /\ v_outcome = "failed"
      /\ v_calls # {} /\ ~v_foreign)
     => Rec(ledger, v_skill) = Rec(v_ledger0, v_skill)

\* C16: after a voice install that failed, the skill is on disk exactly if it
\* was before, its persisted record is what it was, and so no 'installed' record
\* names a skill that the invocation took off the disk.
FailedInstallAtomic ==
  (/\ v_pc = "done" /\ v_outcome = "failed"
   /\ v_kind \in {"install", "install_beta"}
   /\ v_skill # "none")
  =>
  /\ (v_skill \in local) = v_is_local
  /\ Rec(ledger, v_skill) = Rec(v_ledger0, v_skill)
  /\ ~(InstalledRecord(ledger, v_skill) /\ v_is_local /\ v_skill \notin local)

\* the skills data d records n as a pre-release install
RecordedBeta(d, n) == n \in DOMAIN d /\ "beta" \in DOMAIN d[n] /\ d[n]["beta"]
\* the invocation has ended with the one dialog, without a prompt, a
\* confirmation, a transport call or a write of the skills data
EndedUntouched(dialog) ==
  /\ v_pc = "done"
  /\ Prompts(v_find) = 0
  /\ v_outcome = "failed"
  /\ v_spoken = <<dialog>>
  /\ v_resp = "unasked"
  /\ v_calls = {}
  /\ ledger = v_ledger0

\* C17: install of a skill on disk that is not recorded as pre-release ends with
\* the already-installed dialog, install_beta of a skill on disk that is recorded
\* as pre-release with the already-beta dialog, remove of a skill not on disk
\* with the already-removed dialog; each without confirmation, transport call or
\* write of the skills data.
PreconditionFirst ==
  v_skill # "none" =>
    /\ (v_kind = "install" /\ v_is_local /\ ~RecordedBeta(v_ledger0, v_skill))
         => EndedUntouched("error.already.installed")
    /\ (v_kind = "install_beta" /\ v_is_local /\ RecordedBeta(v_ledger0, v_skill))
         => EndedUntouched("error.already.beta")
    /\ (v_kind = "remove" /\ ~v_is_local)
         => EndedUntouched("error.already.removed")

\* C17 witness: install_beta of a skill on disk whose record says pre-release
\* has ended with the already-beta dialog.
PreconditionWitness ==
  /\ v_kind = "install_beta"
  /\ v_skill \in local
  /\ RecordedBeta(ledger, v_skill)
  /\ v_spoken = <<"error.already.beta">>

\* C18: on_web_settings_change calls msm.install(link) only when auto_install is
\* set and the link differs from previous_link, it sets previous_link to the
\* link in the same step, and so it calls it at most once however many
\* settings-change events follow with the same link.
LinkInstalledOnce ==
  /\ [](link_installs <= 1)
  /\ [][link_installs' # link_installs =>
         /\ link_installs' = link_installs + 1
         /\ settings.auto_install
         /\ settings.installer_link # NoLink
         /\ settings.previous_link # settings.installer_link
         /\ settings'.previous_link = settings.installer_link]_vars

\* C18 witness: a second settings-change event with the same link has been
\* handled, after the first one attempted the install and the attempt failed.
LinkInstalledOnceWitness ==
  /\ link_installs = 1
  /\ p_ran
  /\ m_pc = "done"
  /\ LinkSkill \notin local

====
